---- MODULE Spec2Model ----
(***************************************************************************)
(* Model of the syslog client of haccht/syslog_tools: the Writer (Dial,    *)
(* connect, Close, the emission methods and writeAndRetry) and the         *)
(* priority parser (levelPriority, facilityPriority, parsePriority).       *)
(*                                                                         *)
(* Text is modelled as a sequence of one-character strings.                *)
(* Spec      : one Writer shared by NumCallers goroutines.                 *)
(* FairSpec  : Spec with the scheduling fairness of running goroutines.    *)
(* SpecCodec : parsePriority applied to a bounded set of input texts.      *)
(***************************************************************************)
EXTENDS Integers, Sequences, FiniteSets, TLC

\* ------------------------------------------------------------------ bounds
NumCallers == 2
MaxCalls == 3

\* --------------------------------------------------------------- constants
severityMask == 7
facilityMask == 248

LOG_EMERG == 0
LOG_ALERT == 1
LOG_CRIT == 2
LOG_ERR == 3
LOG_WARNING == 4
LOG_NOTICE == 5
LOG_INFO == 6
LOG_DEBUG == 7

LOG_KERN == 0 * 8
LOG_USER == 1 * 8
LOG_MAIL == 2 * 8
LOG_DAEMON == 3 * 8
LOG_AUTH == 4 * 8
LOG_SYSLOG == 5 * 8
LOG_LPR == 6 * 8
LOG_NEWS == 7 * 8
LOG_UUCP == 8 * 8
LOG_CRON == 9 * 8
LOG_AUTHPRIV == 10 * 8
LOG_FTP == 11 * 8
LOG_LOCAL0 == 16 * 8
LOG_LOCAL1 == 17 * 8
LOG_LOCAL2 == 18 * 8
LOG_LOCAL3 == 19 * 8
LOG_LOCAL4 == 20 * 8
LOG_LOCAL5 == 21 * 8
LOG_LOCAL6 == 22 * 8
LOG_LOCAL7 == 23 * 8

\* ------------------------------------------------------- integer operators
\* Bitwise AND and OR of two non-negative integers.
RECURSIVE AndNat(_, _)
AndNat(a, b) ==
  IF a = 0 \/ b = 0 THEN 0
  ELSE (IF a % 2 = 1 /\ b % 2 = 1 THEN 1 ELSE 0) + 2 * AndNat(a \div 2, b \div 2)

RECURSIVE OrNat(_, _)
OrNat(a, b) ==
  IF a = 0 THEN b
  ELSE IF b = 0 THEN a
  ELSE (IF a % 2 = 1 \/ b % 2 = 1 THEN 1 ELSE 0) + 2 * OrNat(a \div 2, b \div 2)

\* x & m for a Go int x (two's complement, possibly negative) and a mask m
\* in 0..255: only the low eight bits of x take part.
BitAnd(x, m) == AndNat(x % 256, m)

\* ------------------------------------------------------------ text helpers
LowerLetters ==
  <<"a","b","c","d","e","f","g","h","i","j","k","l","m",
    "n","o","p","q","r","s","t","u","v","w","x","y","z">>
UpperLetters ==
  <<"A","B","C","D","E","F","G","H","I","J","K","L","M",
    "N","O","P","Q","R","S","T","U","V","W","X","Y","Z">>

\* strings.ToUpper, one character
ToUpperChar(c) ==
  IF \E i \in 1..26 : LowerLetters[i] = c
  THEN UpperLetters[CHOOSE i \in 1..26 : LowerLetters[i] = c]
  ELSE c

\* strings.ToUpper
ToUpper(s) == [i \in 1..Len(s) |-> ToUpperChar(s[i])]

\* strings.Split(s, "."): every "." separates two tokens; a text without
\* "." yields one token, the empty text yields one empty token.
RECURSIVE SplitFrom(_, _, _)
SplitFrom(s, i, cur) ==
  IF i > Len(s) THEN <<cur>>
  ELSE IF s[i] = "." THEN <<cur>> \o SplitFrom(s, i + 1, <<>>)
  ELSE SplitFrom(s, i + 1, Append(cur, s[i]))

Split(s) == SplitFrom(s, 1, <<>>)

\* ---------------------------------------------------------- priority codec
\* The result of a Go function returning (Priority, error); "panic" is a
\* run-time panic (index out of range) instead of a return.
Ok(v) == [kind |-> "ok", value |-> v]
Fail(e) == [kind |-> "err", value |-> 0, err |-> e]
Panic == [kind |-> "panic"]

\* the cases of the switch in levelPriority, in order
LevelCases ==
  << <<<<"E","M","E","R","G">>, LOG_EMERG>>,
     <<<<"A","L","E","R","T">>, LOG_ALERT>>,
     <<<<"C","R","I","T">>, LOG_CRIT>>,
     <<<<"E","R","R">>, LOG_ERR>>,
     <<<<"W","A","R","N">>, LOG_WARNING>>,
     <<<<"W","A","R","N","I","N","G">>, LOG_WARNING>>,
     <<<<"N","O","T","I","C","E">>, LOG_NOTICE>>,
     <<<<"I","N","F","O">>, LOG_INFO>>,
     <<<<"D","E","B","U","G">>, LOG_DEBUG>> >>

\* the cases of the switch in facilityPriority, in order
FacilityCases ==
  << <<<<"K","E","R","N">>, LOG_KERN>>,
     <<<<"U","S","E","R">>, LOG_USER>>,
     <<<<"M","A","I","L">>, LOG_MAIL>>,
     <<<<"D","A","E","M","O","N">>, LOG_DAEMON>>,
     <<<<"A","U","T","H">>, LOG_AUTH>>,
     <<<<"S","Y","S","L","O","G">>, LOG_SYSLOG>>,
     <<<<"L","P","R">>, LOG_LPR>>,
     <<<<"N","E","W","S">>, LOG_NEWS>>,
     <<<<"U","U","C","P">>, LOG_UUCP>>,
     <<<<"C","R","O","N">>, LOG_CRON>>,
     <<<<"A","U","T","H","P","R","I","V">>, LOG_AUTHPRIV>>,
     <<<<"F","T","P">>, LOG_FTP>>,
     <<<<"L","O","C","A","L","0">>, LOG_LOCAL0>>,
     <<<<"L","O","C","A","L","1">>, LOG_LOCAL1>>,
     <<<<"L","O","C","A","L","2">>, LOG_LOCAL2>>,
     <<<<"L","O","C","A","L","3">>, LOG_LOCAL3>>,
     <<<<"L","O","C","A","L","4">>, LOG_LOCAL4>>,
     <<<<"L","O","C","A","L","5">>, LOG_LOCAL5>>,
     <<<<"L","O","C","A","L","6">>, LOG_LOCAL6>>,
     <<<<"L","O","C","A","L","7">>, LOG_LOCAL7>> >>

\* a switch over string cases: the value of the first matching case
Switch(cases, key, default) ==
  IF \E i \in 1..Len(cases) : cases[i][1] = key
  THEN Ok(cases[CHOOSE i \in 1..Len(cases) :
                  /\ cases[i][1] = key
                  /\ \A j \in 1..(i - 1) : cases[j][1] # key][2])
  ELSE default

levelPriority(level) ==
  Switch(LevelCases, ToUpper(level), Fail("invalid syslog level"))

\* variant: the switch is applied to the token as given, without ToUpper
facilityPriority_NoUpper(facility) ==
  Switch(FacilityCases, facility, Fail("invalid syslog facility"))

facilityPriority(facility) ==
  Switch(FacilityCases, ToUpper(facility), Fail("invalid syslog facility"))

\* variant: the level token is looked up before the facility token
parsePriority_LevelFirst(priority) ==
  LET tokens == Split(priority)
  IN  IF Len(tokens) < 2 THEN Panic
      ELSE LET level == levelPriority(tokens[2])
               facility == facilityPriority(tokens[1])
           IN  IF level.kind = "err" THEN Fail(level.err)
               ELSE IF facility.kind = "err" THEN Fail(facility.err)
               ELSE Ok(OrNat(facility.value, level.value))

parsePriority(priority) ==
  LET tokens == Split(priority)
      facility == facilityPriority(tokens[1])
  IN  IF facility.kind = "err" THEN Fail(facility.err)
      ELSE IF Len(tokens) < 2 THEN Panic
      ELSE LET level == levelPriority(tokens[2])
           IN  IF level.kind = "err" THEN Fail(level.err)
               ELSE Ok(OrNat(facility.value, level.value))

\* ------------------------------------------------------------ Writer state
VARIABLES
  phase,        \* "new" before Dial; "open", "invalid" or "connerr" after it
  w,            \* the Writer: priority, tag, hostname, network, raddr, conn
  mu,           \* w.mu: 0 when unlocked, else the caller that locked it
  open,         \* transport connections opened by the Writer and not closed
  nextConn,     \* identity of the next connection net.Dial returns
  pc,           \* position of each caller
  ret,          \* where Close returns to: "idle" (a caller) or "cDial" (connect)
  cv,           \* locals and counters of each caller's call in progress;
                \* afterErr: the call began after an emission returned a write error
                \* w0: the Writer as the call found it when it took the lock
  started,      \* number of calls started
  prevCS,       \* the operation that last released w.mu
  lastWrite,    \* the frame last handed to the transport by the call in progress
  hadWriteError,\* an emission has returned the error of its retried write
  dialCall,     \* the call of Dial: its priority argument, the hostname it
                \* resolved, its connect attempts and what it returned
  text,         \* input of parsePriority
  parsed        \* result of parsePriority, NoResult before the call

vars == <<phase, w, mu, open, nextConn, pc, ret, cv, started, prevCS,
          lastWrite, hadWriteError, dialCall, text, parsed>>

writerVars == <<phase, w, mu, open, nextConn, pc, ret, cv, started, prevCS,
                lastWrite, hadWriteError, dialCall>>
codecVars == <<text, parsed>>

Callers == 1..NumCallers

NoResult == [kind |-> "none"]

\* the connection's local endpoint, as a string
LocalAddr(id) == <<"laddr", id>>

\* os.Args[0] and the outcomes of os.Hostname(): the host name, or "" on error
ProgramName == <<"l","o","g","g","e","r">>
OsHostnames == {<<"myhost">>, <<>>}

\* arguments of Dial
DialPriorities ==
  {0 - 1, 0, OrNat(LOG_USER, LOG_NOTICE), OrNat(LOG_LOCAL3, LOG_ERR),
   OrNat(LOG_LOCAL7, LOG_DEBUG), OrNat(LOG_LOCAL7, LOG_DEBUG) + 1}
DialTags == {<<"s","v","c">>, <<>>}
DialHostnames == {<<"host">>, <<>>}

\* messages handed to the emission methods
Msgs == {<<"d","i","s","k"," ","f","u","l","l">>, <<"m", "\n">>, <<>>}

EmitOps ==
  {"Write", "Emerg", "Alert", "Crit", "Err", "Warning", "Notice", "Info", "Debug"}

\* variant: every method passes the configured priority, as Write does
SeverityArg_Configured(op, cp) == cp

\* the priority argument each emission method passes to writeAndRetry
SeverityArg(op, cp) ==
  CASE op = "Write" -> cp
    [] op = "Emerg" -> LOG_EMERG
    [] op = "Alert" -> LOG_ALERT
    [] op = "Crit" -> LOG_CRIT
    [] op = "Err" -> LOG_ERR
    [] op = "Warning" -> LOG_WARNING
    [] op = "Notice" -> LOG_NOTICE
    [] op = "Info" -> LOG_INFO
    [] op = "Debug" -> LOG_DEBUG

\* variant: the configured priority is not masked to its facility
EffectivePriority_NoMask(cp, p) ==
  OrNat(BitAnd(cp, facilityMask + severityMask), BitAnd(p, severityMask))

\* pr := (w.priority & facilityMask) | (p & severityMask)
EffectivePriority(cp, p) ==
  OrNat(BitAnd(cp, facilityMask), BitAnd(p, severityMask))

NoWrite == [by |-> 0]

NoDial ==
  [priority |-> 0, hostname |-> <<>>, attempts |-> 0, client |-> FALSE,
   err |-> "none"]

NewWriter ==
  [priority |-> 0, tag |-> <<>>, hostname |-> <<>>, network |-> "",
   raddr |-> "", conn |-> 0]

NoCall ==
  [op |-> "none", sev |-> 0, pr |-> 0, msg |-> <<>>, writes |-> 0, dials |-> 0,
   closes |-> 0, firstFailed |-> FALSE, firstOk |-> FALSE, n |-> 0, err |-> "nil",
   closeErr |-> "nil", prev |-> "none", afterErr |-> FALSE, w0 |-> NewWriter]

Init ==
  /\ phase = "new"
  /\ w = NewWriter
  /\ mu = 0
  /\ open = {}
  /\ nextConn = 1
  /\ pc = [p \in Callers |-> "idle"]
  /\ ret = [p \in Callers |-> "idle"]
  /\ cv = [p \in Callers |-> NoCall]
  /\ started = 0
  /\ prevCS = "none"
  /\ lastWrite = NoWrite
  /\ hadWriteError = FALSE
  /\ dialCall = NoDial
  /\ text = <<>>
  /\ parsed = NoResult

\* ------------------------------------------------------------------- Dial
\* variant: the largest priority, LOG_LOCAL7|LOG_DEBUG, is rejected too
Dial_OffByOne(priority, tag, hostname, oshost, ok) ==
  /\ phase = "new"
  /\ IF priority < 0 \/ priority >= OrNat(LOG_LOCAL7, LOG_DEBUG)
     THEN /\ phase' = "invalid"
          /\ dialCall' = [priority |-> priority, hostname |-> <<>>, attempts |-> 0,
                          client |-> FALSE, err |-> "invalid priority"]
          /\ UNCHANGED <<w, open, nextConn, prevCS>>
     ELSE LET t == IF tag = <<>> THEN ProgramName ELSE tag
              h == IF hostname = <<>> THEN oshost ELSE hostname
              built == [priority |-> priority, tag |-> t, hostname |-> h,
                        network |-> "udp", raddr |-> ":514", conn |-> 0]
          IN  IF ok
              THEN /\ phase' = "open"
                   /\ w' = [built EXCEPT
                              !.conn = nextConn,
                              !.hostname = IF h = <<>> THEN LocalAddr(nextConn) ELSE h]
                   /\ open' = open \cup {nextConn}
                   /\ nextConn' = nextConn + 1
                   /\ prevCS' = "Dial"
                   /\ dialCall' = [priority |-> priority, hostname |-> h, attempts |-> 1,
                                   client |-> TRUE, err |-> "nil"]
              ELSE /\ phase' = "connerr"
                   /\ dialCall' = [priority |-> priority, hostname |-> h, attempts |-> 1,
                                   client |-> FALSE, err |-> "dial"]
                   /\ UNCHANGED <<w, open, nextConn, prevCS>>
  /\ UNCHANGED <<mu, pc, ret, cv, started, lastWrite, hadWriteError>>
  /\ UNCHANGED codecVars

\* Dial: validate the priority, default tag and hostname, build the Writer
\* and connect under the lock of the fresh Writer (no other caller has it).
Dial(priority, tag, hostname, oshost, ok) ==
  /\ phase = "new"
  /\ IF priority < 0 \/ priority > OrNat(LOG_LOCAL7, LOG_DEBUG)
     THEN /\ phase' = "invalid"
          /\ dialCall' = [priority |-> priority, hostname |-> <<>>, attempts |-> 0,
                          client |-> FALSE, err |-> "invalid priority"]
          /\ UNCHANGED <<w, open, nextConn, prevCS>>
     ELSE LET t == IF tag = <<>> THEN ProgramName ELSE tag
              h == IF hostname = <<>> THEN oshost ELSE hostname
              built == [priority |-> priority, tag |-> t, hostname |-> h,
                        network |-> "udp", raddr |-> ":514", conn |-> 0]
          IN  IF ok
              THEN /\ phase' = "open"
                   /\ w' = [built EXCEPT
                              !.conn = nextConn,
                              !.hostname = IF h = <<>> THEN LocalAddr(nextConn) ELSE h]
                   /\ open' = open \cup {nextConn}
                   /\ nextConn' = nextConn + 1
                   /\ prevCS' = "Dial"
                   /\ dialCall' = [priority |-> priority, hostname |-> h, attempts |-> 1,
                                   client |-> TRUE, err |-> "nil"]
              ELSE /\ phase' = "connerr"
                   /\ dialCall' = [priority |-> priority, hostname |-> h, attempts |-> 1,
                                   client |-> FALSE, err |-> "dial"]
                   /\ UNCHANGED <<w, open, nextConn, prevCS>>
  /\ UNCHANGED <<mu, pc, ret, cv, started, lastWrite, hadWriteError>>
  /\ UNCHANGED codecVars

\* ------------------------------------------------------ framing and write
HasSuffixNL(msg) == Len(msg) > 0 /\ msg[Len(msg)] = "\n"

\* fmt's %d of a non-negative integer
DecimalDigits == <<"0", "1", "2", "3", "4", "5", "6", "7", "8", "9">>
RECURSIVE Decimal(_)
Decimal(n) ==
  IF n < 10 THEN <<DecimalDigits[n + 1]>>
  ELSE Append(Decimal(n \div 10), DecimalDigits[(n % 10) + 1])

\* writeString: the line "<%d>%s %s %s[%d]: %s%s" handed to the transport in
\* one write, as its fields: pri is "<" p ">" in decimal, body is msg
\* followed by nl; the timestamp and the process id are left out
writeString(by, conn, p, hostname, tag, msg, nl) ==
  [by |-> by, conn |-> conn, pr |-> p, pri |-> <<"<">> \o Decimal(p) \o <<">">>,
   hostname |-> hostname, tag |-> tag, body |-> msg \o nl]

\* variant: a newline is added to every message
write_AlwaysNewline(p, ok) ==
  LET msg == cv[p].msg
      nl == <<"\n">>
  IN  [frame |-> writeString(p, w.conn, cv[p].pr, w.hostname, w.tag, msg, nl),
       n |-> IF ok THEN Len(msg) ELSE 0,
       err |-> IF ok THEN "nil" ELSE "write"]

\* variant: the length of the framed message is returned
write_FramedLength(p, ok) ==
  LET msg == cv[p].msg
      nl == IF ~HasSuffixNL(msg) THEN <<"\n">> ELSE <<>>
  IN  [frame |-> writeString(p, w.conn, cv[p].pr, w.hostname, w.tag, msg, nl),
       n |-> IF ok THEN Len(msg \o nl) ELSE 0,
       err |-> IF ok THEN "nil" ELSE "write"]

\* Writer.write by caller p with transport outcome ok: the frame handed to
\* the transport and the (n, err) returned
write(p, ok) ==
  LET msg == cv[p].msg
      nl == IF ~HasSuffixNL(msg) THEN <<"\n">> ELSE <<>>
  IN  [frame |-> writeString(p, w.conn, cv[p].pr, w.hostname, w.tag, msg, nl),
       n |-> IF ok THEN Len(msg) ELSE 0,
       err |-> IF ok THEN "nil" ELSE "write"]

\* ---------------------------------------------------------------- callers
\* A caller invokes one of Write, Emerg, ..., Debug and goes for the lock.
\* Which method and which message is recorded when the lock is taken: the
\* arguments and pr (computed from w.priority, which never changes after
\* Dial) are local to the call and nobody sees them before that.
CallEmit(p) ==
  /\ phase = "open"
  /\ pc[p] = "idle"
  /\ started < MaxCalls
  /\ started' = started + 1
  /\ cv' = [cv EXCEPT ![p] = [NoCall EXCEPT !.op = "emit", !.afterErr = hadWriteError]]
  /\ pc' = [pc EXCEPT ![p] = "wLock"]
  /\ UNCHANGED <<phase, w, mu, open, nextConn, ret, prevCS, lastWrite, hadWriteError>>
  /\ UNCHANGED dialCall
  /\ UNCHANGED codecVars

\* variant: writeAndRetry goes on without waiting for w.mu
WLock_NoWait(p, op, msg) ==
  /\ pc[p] = "wLock"
  /\ mu' = p
  /\ cv' = [cv EXCEPT ![p] =
              [NoCall EXCEPT !.op = op,
                             !.sev = SeverityArg(op, w.priority),
                             !.pr = EffectivePriority(w.priority, SeverityArg(op, w.priority)),
                             !.msg = msg,
                             !.prev = prevCS,
                             !.afterErr = cv[p].afterErr,
                             !.w0 = w]]
  /\ pc' = [pc EXCEPT ![p] = "wFirst"]
  /\ UNCHANGED <<phase, w, open, nextConn, ret, started, prevCS, lastWrite, hadWriteError>>
  /\ UNCHANGED dialCall
  /\ UNCHANGED codecVars

\* pr := (w.priority & facilityMask) | (p & severityMask); w.mu.Lock()
WLock(p, op, msg) ==
  /\ pc[p] = "wLock"
  /\ mu = 0
  /\ mu' = p
  /\ cv' = [cv EXCEPT ![p] =
              [NoCall EXCEPT !.op = op,
                             !.sev = SeverityArg(op, w.priority),
                             !.pr = EffectivePriority(w.priority, SeverityArg(op, w.priority)),
                             !.msg = msg,
                             !.prev = prevCS,
                             !.afterErr = cv[p].afterErr,
                             !.w0 = w]]
  /\ pc' = [pc EXCEPT ![p] = "wFirst"]
  /\ UNCHANGED <<phase, w, open, nextConn, ret, started, prevCS, lastWrite, hadWriteError>>
  /\ UNCHANGED dialCall
  /\ UNCHANGED codecVars

\* variant: writeAndRetry reconnects after a successful first write too
WFirst_ThenReconnect(p) ==
  /\ pc[p] = "wFirst"
  /\ IF w.conn # 0
     THEN \E ok \in BOOLEAN :
            LET r == write(p, ok)
            IN  /\ lastWrite' = r.frame
                /\ IF ok
                   THEN /\ cv' = [cv EXCEPT ![p].writes = @ + 1, ![p].firstOk = TRUE,
                                            ![p].n = r.n, ![p].err = r.err]
                        /\ pc' = [pc EXCEPT ![p] = "connect"]
                   ELSE /\ cv' = [cv EXCEPT ![p].writes = @ + 1,
                                            ![p].firstFailed = TRUE]
                        /\ pc' = [pc EXCEPT ![p] = "connect"]
     ELSE /\ pc' = [pc EXCEPT ![p] = "connect"]
          /\ UNCHANGED <<cv, lastWrite>>
  /\ UNCHANGED <<phase, w, mu, open, nextConn, ret, started, prevCS, hadWriteError>>
  /\ UNCHANGED dialCall
  /\ UNCHANGED codecVars

\* variant: the first write is attempted without looking at w.conn
WFirst_NoNilCheck(p) ==
  /\ pc[p] = "wFirst"
  /\ IF TRUE
     THEN \E ok \in BOOLEAN :
            LET r == write(p, ok)
            IN  /\ lastWrite' = r.frame
                /\ IF ok
                   THEN /\ cv' = [cv EXCEPT ![p].writes = @ + 1, ![p].firstOk = TRUE,
                                            ![p].n = r.n, ![p].err = r.err]
                        /\ pc' = [pc EXCEPT ![p] = "wUnlock"]
                   ELSE /\ cv' = [cv EXCEPT ![p].writes = @ + 1,
                                            ![p].firstFailed = TRUE]
                        /\ pc' = [pc EXCEPT ![p] = "connect"]
     ELSE /\ pc' = [pc EXCEPT ![p] = "connect"]
          /\ UNCHANGED <<cv, lastWrite>>
  /\ UNCHANGED <<phase, w, mu, open, nextConn, ret, started, prevCS, hadWriteError>>
  /\ UNCHANGED dialCall
  /\ UNCHANGED codecVars

\* if w.conn != nil { if n, err := w.write(pr, s); err == nil { return } }
WFirst(p) ==
  /\ pc[p] = "wFirst"
  /\ IF w.conn # 0
     THEN \E ok \in BOOLEAN :
            LET r == write(p, ok)
            IN  /\ lastWrite' = r.frame
                /\ IF ok
                   THEN /\ cv' = [cv EXCEPT ![p].writes = @ + 1, ![p].firstOk = TRUE,
                                            ![p].n = r.n, ![p].err = r.err]
                        /\ pc' = [pc EXCEPT ![p] = "wUnlock"]
                   ELSE /\ cv' = [cv EXCEPT ![p].writes = @ + 1,
                                            ![p].firstFailed = TRUE]
                        /\ pc' = [pc EXCEPT ![p] = "connect"]
     ELSE /\ pc' = [pc EXCEPT ![p] = "connect"]
          /\ UNCHANGED <<cv, lastWrite>>
  /\ UNCHANGED <<phase, w, mu, open, nextConn, ret, started, prevCS, hadWriteError>>
  /\ UNCHANGED dialCall
  /\ UNCHANGED codecVars

\* variant: connect dials without closing the connection it holds
connect_NoClose(p) ==
  /\ pc[p] = "connect"
  /\ pc' = [pc EXCEPT ![p] = "cDial"]
  /\ UNCHANGED <<phase, w, mu, open, nextConn, ret, cv, started, prevCS, lastWrite, hadWriteError>>
  /\ UNCHANGED dialCall
  /\ UNCHANGED codecVars

\* connect, first half: if w.conn != nil { w.Close() }
\* w.Close is the exported method, which starts with w.mu.Lock().
connect(p) ==
  /\ pc[p] = "connect"
  /\ IF w.conn # 0
     THEN /\ pc' = [pc EXCEPT ![p] = "cLock"]
          /\ ret' = [ret EXCEPT ![p] = "cDial"]
     ELSE /\ pc' = [pc EXCEPT ![p] = "cDial"]
          /\ UNCHANGED ret
  /\ UNCHANGED <<phase, w, mu, open, nextConn, cv, started, prevCS, lastWrite, hadWriteError>>
  /\ UNCHANGED dialCall
  /\ UNCHANGED codecVars

\* variant: writeAndRetry goes on to the retried write when connect failed
connectDial_WriteAfterFail(p) ==
  /\ pc[p] = "cDial"
  /\ \E ok \in BOOLEAN :
       IF ok
       THEN /\ w' = [w EXCEPT !.conn = nextConn,
                              !.hostname = IF @ = <<>> THEN LocalAddr(nextConn) ELSE @]
            /\ open' = open \cup {nextConn}
            /\ nextConn' = nextConn + 1
            /\ cv' = [cv EXCEPT ![p].dials = @ + 1]
       ELSE /\ w' = [w EXCEPT !.conn = 0]
            /\ cv' = [cv EXCEPT ![p].dials = @ + 1, ![p].n = 0, ![p].err = "dial"]
            /\ UNCHANGED <<open, nextConn>>
  /\ pc' = [pc EXCEPT ![p] = "wRetry"]
  /\ UNCHANGED <<phase, mu, ret, started, prevCS, lastWrite, hadWriteError>>
  /\ UNCHANGED dialCall
  /\ UNCHANGED codecVars

\* variant: every successful connect sets the hostname
connectDial_SetsHostname(p) ==
  /\ pc[p] = "cDial"
  /\ \E ok \in BOOLEAN :
       IF ok
       THEN /\ w' = [w EXCEPT !.conn = nextConn,
                              !.hostname = LocalAddr(nextConn)]
            /\ open' = open \cup {nextConn}
            /\ nextConn' = nextConn + 1
            /\ cv' = [cv EXCEPT ![p].dials = @ + 1]
            /\ pc' = [pc EXCEPT ![p] = "wRetry"]
       ELSE /\ w' = [w EXCEPT !.conn = 0]
            /\ cv' = [cv EXCEPT ![p].dials = @ + 1, ![p].n = 0, ![p].err = "dial"]
            /\ pc' = [pc EXCEPT ![p] = "wUnlock"]
            /\ UNCHANGED <<open, nextConn>>
  /\ UNCHANGED <<phase, mu, ret, started, prevCS, lastWrite, hadWriteError>>
  /\ UNCHANGED dialCall
  /\ UNCHANGED codecVars

\* connect, second half: w.conn, err = net.Dial(...); hostname from the
\* local endpoint when the dial succeeded and hostname is empty.
\* On success writeAndRetry goes on to the retried write, else it returns
\* (0, err).
connectDial(p) ==
  /\ pc[p] = "cDial"
  /\ \E ok \in BOOLEAN :
       IF ok
       THEN /\ w' = [w EXCEPT !.conn = nextConn,
                              !.hostname = IF @ = <<>> THEN LocalAddr(nextConn) ELSE @]
            /\ open' = open \cup {nextConn}
            /\ nextConn' = nextConn + 1
            /\ cv' = [cv EXCEPT ![p].dials = @ + 1]
            /\ pc' = [pc EXCEPT ![p] = "wRetry"]
       ELSE /\ w' = [w EXCEPT !.conn = 0]
            /\ cv' = [cv EXCEPT ![p].dials = @ + 1, ![p].n = 0, ![p].err = "dial"]
            /\ pc' = [pc EXCEPT ![p] = "wUnlock"]
            /\ UNCHANGED <<open, nextConn>>
  /\ UNCHANGED <<phase, mu, ret, started, prevCS, lastWrite, hadWriteError>>
  /\ UNCHANGED dialCall
  /\ UNCHANGED codecVars

\* variant: a failed retried write is tried again
WRetry_Again(p) ==
  /\ pc[p] = "wRetry"
  /\ \E ok \in BOOLEAN :
       LET r == write(p, ok)
       IN  /\ lastWrite' = r.frame
           /\ cv' = [cv EXCEPT ![p].writes = @ + 1, ![p].n = r.n, ![p].err = r.err]
           /\ pc' = [pc EXCEPT ![p] = IF ok THEN "wUnlock" ELSE "wRetry"]
  /\ UNCHANGED <<phase, w, mu, open, nextConn, ret, started, prevCS, hadWriteError>>
  /\ UNCHANGED dialCall
  /\ UNCHANGED codecVars

\* return w.write(pr, s)
WRetry(p) ==
  /\ pc[p] = "wRetry"
  /\ \E ok \in BOOLEAN :
       LET r == write(p, ok)
       IN  /\ lastWrite' = r.frame
           /\ cv' = [cv EXCEPT ![p].writes = @ + 1, ![p].n = r.n, ![p].err = r.err]
  /\ pc' = [pc EXCEPT ![p] = "wUnlock"]
  /\ UNCHANGED <<phase, w, mu, open, nextConn, ret, started, prevCS, hadWriteError>>
  /\ UNCHANGED dialCall
  /\ UNCHANGED codecVars

\* the deferred w.mu.Unlock() of writeAndRetry, and the return to the caller
WUnlock(p) ==
  /\ pc[p] = "wUnlock"
  /\ mu' = 0
  /\ prevCS' = "emit"
  /\ hadWriteError' = (hadWriteError \/ cv[p].err = "write")
  /\ cv' = [cv EXCEPT ![p] = NoCall]
  /\ lastWrite' = NoWrite
  /\ pc' = [pc EXCEPT ![p] = "idle"]
  /\ UNCHANGED <<phase, w, open, nextConn, ret, started>>
  /\ UNCHANGED dialCall
  /\ UNCHANGED codecVars

\* A caller invokes Close.
CallClose(p) ==
  /\ phase = "open"
  /\ pc[p] = "idle"
  /\ started < MaxCalls
  /\ started' = started + 1
  /\ cv' = [cv EXCEPT ![p] = [NoCall EXCEPT !.op = "Close"]]
  /\ pc' = [pc EXCEPT ![p] = "cLock"]
  /\ ret' = [ret EXCEPT ![p] = "idle"]
  /\ UNCHANGED <<phase, w, mu, open, nextConn, prevCS, lastWrite, hadWriteError>>
  /\ UNCHANGED dialCall
  /\ UNCHANGED codecVars

\* w.mu.Lock() in Close; sync.Mutex is not reentrant: the lock is taken only
\* when nobody holds it, the caller itself included.
CloseLock(p) ==
  /\ pc[p] = "cLock"
  /\ mu = 0
  /\ mu' = p
  /\ cv' = [cv EXCEPT ![p].prev = prevCS]
  /\ pc' = [pc EXCEPT ![p] = "cBody"]
  /\ UNCHANGED <<phase, w, open, nextConn, ret, started, prevCS, lastWrite, hadWriteError>>
  /\ UNCHANGED dialCall
  /\ UNCHANGED codecVars

\* variant: Close closes the connection and keeps the handle
CloseBody_KeepHandle(p) ==
  /\ pc[p] = "cBody"
  /\ IF w.conn # 0
     THEN \E failed \in BOOLEAN :
            /\ open' = open \ {w.conn}
            /\ cv' = [cv EXCEPT ![p].closes = @ + 1,
                                ![p].closeErr = IF failed THEN "close" ELSE "nil"]
     ELSE /\ cv' = [cv EXCEPT ![p].closeErr = "nil"]
          /\ UNCHANGED open
  /\ pc' = [pc EXCEPT ![p] = "cUnlock"]
  /\ UNCHANGED <<phase, w, mu, nextConn, ret, started, prevCS, lastWrite, hadWriteError>>
  /\ UNCHANGED dialCall
  /\ UNCHANGED codecVars

\* if w.conn != nil { err := w.conn.Close(); w.conn = nil; return err }
\* return nil
CloseBody(p) ==
  /\ pc[p] = "cBody"
  /\ IF w.conn # 0
     THEN \E failed \in BOOLEAN :
            /\ open' = open \ {w.conn}
            /\ w' = [w EXCEPT !.conn = 0]
            /\ cv' = [cv EXCEPT ![p].closes = @ + 1,
                                ![p].closeErr = IF failed THEN "close" ELSE "nil"]
     ELSE /\ cv' = [cv EXCEPT ![p].closeErr = "nil"]
          /\ UNCHANGED <<w, open>>
  /\ pc' = [pc EXCEPT ![p] = "cUnlock"]
  /\ UNCHANGED <<phase, mu, nextConn, ret, started, prevCS, lastWrite, hadWriteError>>
  /\ UNCHANGED dialCall
  /\ UNCHANGED codecVars

\* the deferred w.mu.Unlock() of Close, and the return: to the caller, or
\* into connect, which ignores the error
CloseUnlock(p) ==
  /\ pc[p] = "cUnlock"
  /\ mu' = 0
  /\ prevCS' = "Close"
  /\ IF ret[p] = "idle"
     THEN /\ cv' = [cv EXCEPT ![p] = NoCall]
          /\ pc' = [pc EXCEPT ![p] = "idle"]
     ELSE /\ cv' = cv
          /\ pc' = [pc EXCEPT ![p] = ret[p]]
  /\ ret' = [ret EXCEPT ![p] = "idle"]
  /\ UNCHANGED <<phase, w, open, nextConn, started, lastWrite, hadWriteError>>
  /\ UNCHANGED dialCall
  /\ UNCHANGED codecVars

\* the steps of a call in progress by caller p
Step(p) ==
  \/ \E op \in EmitOps, msg \in Msgs : WLock(p, op, msg)
  \/ WFirst(p)
  \/ connect(p)
  \/ connectDial(p)
  \/ WRetry(p)
  \/ WUnlock(p)
  \/ CloseLock(p)
  \/ CloseBody(p)
  \/ CloseUnlock(p)

Next ==
  \/ \E priority \in DialPriorities, tag \in DialTags, hostname \in DialHostnames,
        oshost \in OsHostnames, ok \in BOOLEAN :
       Dial(priority, tag, hostname, oshost, ok)
  \/ \E p \in Callers : CallEmit(p)
  \/ \E p \in Callers : CallClose(p)
  \/ \E p \in Callers : Step(p)

Spec == Init /\ [][Next]_vars

\* A goroutine inside a call keeps running: each of its steps that stays
\* enabled is taken, and a goroutine waiting for w.mu gets it when it is
\* released again and again (sync.Mutex hands over to starving waiters).
\* Starting a call is up to the caller and carries no fairness.
FairSpec ==
  /\ Spec
  /\ \A p \in Callers :
       /\ WF_vars(WFirst(p) \/ connect(p) \/ connectDial(p) \/ WRetry(p)
                  \/ WUnlock(p) \/ CloseBody(p) \/ CloseUnlock(p))
       /\ SF_vars(\E op \in EmitOps, msg \in Msgs : WLock(p, op, msg))
       /\ SF_vars(CloseLock(p))

\* ------------------------------------------------- parsePriority, applied
LowerOf(c) ==
  IF \E i \in 1..26 : UpperLetters[i] = c
  THEN LowerLetters[CHOOSE i \in 1..26 : UpperLetters[i] = c]
  ELSE c

\* letter-case variants of an upper-case mnemonic: KERN, kern, kErN
AllLower(s) == [i \in 1..Len(s) |-> LowerOf(s[i])]
Alternating(s) == [i \in 1..Len(s) |-> IF i % 2 = 1 THEN LowerOf(s[i]) ELSE s[i]]
CaseVariants(s) == {s, AllLower(s), Alternating(s)}

FacilityTokens ==
  UNION {CaseVariants(FacilityCases[i][1]) : i \in 1..Len(FacilityCases)}
LevelTokens ==
  UNION {CaseVariants(LevelCases[i][1]) : i \in 1..Len(LevelCases)}

\* an optional third segment
ThirdSegments == {<<>>, <<".", "x">>}

\* tokens that are no mnemonic, and texts without any "."
BadFacilityTokens ==
  {<<>>, <<"l","o","c","a","l","8">>, <<"1","2">>, <<"k","e","r","n","e","l">>}
BadLevelTokens ==
  {<<>>, <<"f","a","t","a","l">>, <<"8">>, <<"w","a","r","n","s">>}
DotlessTexts ==
  {<<>>, <<"u","s","e","r">>, <<"b","o","g","u","s">>,
   <<"L","O","C","A","L","7">>}

PriorityTexts ==
  {f \o <<".">> \o l \o t :
     f \in FacilityTokens \cup BadFacilityTokens,
     l \in LevelTokens \cup BadLevelTokens,
     t \in ThirdSegments}
  \cup DotlessTexts

InitCodec ==
  /\ phase = "new"
  /\ w = NewWriter
  /\ mu = 0
  /\ open = {}
  /\ nextConn = 1
  /\ pc = [p \in Callers |-> "idle"]
  /\ ret = [p \in Callers |-> "idle"]
  /\ cv = [p \in Callers |-> NoCall]
  /\ started = 0
  /\ prevCS = "none"
  /\ lastWrite = NoWrite
  /\ hadWriteError = FALSE
  /\ dialCall = NoDial
  /\ text \in PriorityTexts
  /\ parsed = NoResult

\* main: priority, err := parsePriority(opts.Priority)
Parse ==
  /\ parsed = NoResult
  /\ parsed' = parsePriority(text)
  /\ UNCHANGED text
  /\ UNCHANGED writerVars

\* main: after a successful parse, Dial with the parsed priority; after an
\* error main reports it and exits
MainDial ==
  /\ parsed.kind = "ok"
  /\ \E tag \in DialTags, hostname \in DialHostnames, oshost \in OsHostnames,
        ok \in BOOLEAN :
       Dial(parsed.value, tag, hostname, oshost, ok)

NextCodec ==
  \/ Parse
  \/ MainDial

SpecCodec == InitCodec /\ [][NextCodec]_vars

\* ================================================================= claims
\* positions of a caller inside writeAndRetry, Close called by connect included
InEmission(p) == cv[p].op \in EmitOps \/ cv[p].op = "emit"

\* caller p holds w.mu and is about to return from writeAndRetry
Returning(p) == pc[p] = "wUnlock"

\* C1: every emission call eventually returns, with success or an error, in
\* every client state, given that each transport call returns; the call
\* never blocks forever on the client's own lock.
C1_EmissionReturns ==
  /\ \A p \in Callers : InEmission(p) ~> (pc[p] = "idle")
  /\ [](\A p \in Callers : ~(InEmission(p) /\ pc[p] = "cLock" /\ mu = p))

\* C2: an emission on a client holding a connection whose write fails
\* performs exactly one reconnect attempt; if the reconnect succeeds it
\* performs exactly one retried write on the new connection and returns that
\* write's outcome; on its way to the reconnect it never waits for a lock
\* that it holds itself.
C2_ReconnectAfterFailedWrite ==
  /\ \A p \in Callers : cv[p].firstFailed ~> (cv[p].dials = 1)
  /\ [](\A p \in Callers :
          (cv[p].firstFailed /\ cv[p].dials = 0) => ~(pc[p] = "cLock" /\ mu = p))
  /\ [](\A p \in Callers :
          (Returning(p) /\ cv[p].firstFailed /\ cv[p].err # "dial") =>
             /\ cv[p].dials = 1
             /\ cv[p].writes = 2
             /\ lastWrite.by = p
             /\ lastWrite.conn = w.conn
             /\ cv[p].err = (IF cv[p].n = Len(cv[p].msg) THEN "nil" ELSE "write"))

\* C3: if the reconnect attempted inside an emission call fails, the call
\* returns that connect error with 0 bytes, issues no write after the failed
\* connect, makes no second connect attempt in the same call, and leaves the
\* client with no connection held.
C3_FailedReconnect ==
  /\ [](\A p \in Callers :
          cv[p].err = "dial" =>
             /\ Returning(p)
             /\ cv[p].n = 0
             /\ cv[p].dials = 1
             /\ w.conn = 0)
  /\ [][\A p \in Callers :
          cv[p].err = "dial" =>
             /\ pc'[p] \in {"wUnlock", "idle"}
             /\ cv'[p].writes <= cv[p].writes
             /\ cv'[p].dials <= cv[p].dials
             /\ w'.conn = 0
             /\ lastWrite' \in {lastWrite, NoWrite}]_vars

\* a caller is about to return the error of a failed reconnect
C3_Witness ==
  \E p \in Callers :
    Returning(p) /\ cv[p].err = "dial" /\ cv[p].dials = 1 /\ cv[p].writes = 0

\* C4: a single emission call issues at most two transport write attempts
\* and at most one connect attempt, whatever the transport does.
C4_AtMostTwoWritesOneConnect ==
  \A p \in Callers : cv[p].writes <= 2 /\ cv[p].dials <= 1

\* a call that has connected once and written after it
C4_Witness ==
  \E p \in Callers :
    Returning(p) /\ cv[p].dials = 1 /\ cv[p].writes >= 1 /\ cv[p].err = "write"

\* caller p is between taking w.mu and releasing it; a caller that called
\* Close from connect is still inside the critical section of writeAndRetry
InCS(p) ==
  \/ pc[p] \in {"wFirst", "connect", "cDial", "wRetry", "wUnlock", "cBody", "cUnlock"}
  \/ pc[p] = "cLock" /\ ret[p] = "cDial"

\* C5: with several callers invoking emission and Close on the same client,
\* at most one caller at a time is between the start and the end of its
\* connect/write/close steps; every transport write, connect and close and
\* every change of the connection handle is a step of the one caller that
\* holds the lock, while no other caller is inside its own sequence.
C5_Serialized ==
  /\ [](\A p, q \in Callers : (InCS(p) /\ InCS(q)) => p = q)
  /\ [](\A p \in Callers : InCS(p) => mu = p)
  /\ [][(phase = "open" /\ (w' # w \/ open' # open \/ lastWrite' # lastWrite)) =>
          \E p \in Callers :
            /\ mu = p
            /\ pc'[p] # pc[p]
            /\ \A q \in Callers \ {p} : pc'[q] = pc[q] /\ ~InCS(q)]_vars

\* one caller is between its reconnect and its retried write while another
\* caller has called and waits for the lock
C5_Witness ==
  \E p, q \in Callers :
    /\ p # q
    /\ pc[p] = "wRetry"
    /\ pc[q] \in {"wLock", "cLock"}

\* C6: after an emission call has returned a write error (its retried write
\* failed), a later emission call on the same client returns, and if its
\* first write fails too it attempts a reconnect again, never waiting for a
\* lock that it holds itself.
C6_UsableAfterWriteError ==
  /\ \A p \in Callers :
       (InEmission(p) /\ cv[p].afterErr) ~> (pc[p] = "idle")
  /\ \A p \in Callers :
       (cv[p].afterErr /\ cv[p].firstFailed) ~> (cv[p].dials = 1)
  /\ [](\A p \in Callers :
          (cv[p].afterErr /\ pc[p] = "cLock") => mu # p)

\* C7: when Close returns the client holds no connection, whether or not the
\* transport's close reported an error; a Close that takes the lock right
\* after another Close released it performs no transport close, returns no
\* error and leaves the handle nil.
C7_CloseClearsHandle ==
  /\ [](\A p \in Callers :
          (pc[p] = "cUnlock" /\ ret[p] = "idle") =>
             /\ w.conn = 0
             /\ open = {}
             /\ cv[p].prev = "Close" => (cv[p].closes = 0 /\ cv[p].closeErr = "nil"))
  /\ [][\A p \in Callers :
          (pc[p] = "cUnlock" /\ ret[p] = "idle" /\ pc'[p] = "idle") => w'.conn = 0]_vars

\* a second Close in a row is about to return
C7_Witness ==
  \E p \in Callers :
    /\ pc[p] = "cUnlock"
    /\ ret[p] = "idle"
    /\ cv[p].prev = "Close"
    /\ cv[p].closes = 0
    /\ w.conn = 0

\* C8: in every reachable state at most one transport connection opened by
\* the client is open and not yet closed, and it is the one the client
\* holds; whenever a new connection is opened, the one held before has
\* already been closed.
C8_NoLeakedConnection ==
  /\ [](Cardinality(open) <= 1)
  /\ [](open = (IF phase = "open" /\ w.conn # 0 THEN {w.conn} ELSE {}))
  /\ [][open' \ open # {} => open = {}]_vars

\* a connection was closed and a new one has been opened by an emission
C8_Witness ==
  /\ nextConn >= 3
  /\ open = {nextConn - 1}
  /\ w.conn = nextConn - 1

\* integers outside the range of priorities and severities
C9_Samples == {0 - 1000, 0 - 9, 0 - 1, 0, 7, 8, 13, 155, 191, 192, 255, 256, 1000}

\* the methods with a fixed severity, in the order of their severities 0..7
C9_Methods == <<"Emerg", "Alert", "Crit", "Err", "Warning", "Notice", "Info", "Debug">>

\* x & 0x07 and x & 0xF8 of a two's complement integer, by arithmetic
C9_Low3(x) == x % 8
C9_High5(x) == (x % 256) - (x % 8)

C9_MaskingOnSamples ==
  \A cp \in C9_Samples, s \in C9_Samples :
    /\ C9_Low3(EffectivePriority(cp, s)) = C9_Low3(s)
    /\ C9_High5(EffectivePriority(cp, s)) = C9_High5(cp)

\* C9: the priority pr written on the wire by an emission with configured
\* priority cp and severity argument s has pr & 0x07 = s & 0x07 and
\* pr & 0xF8 = cp & 0xF8, out-of-range arguments included; each of the eight
\* per-severity methods sends its own severity with the configured facility,
\* ignoring the configured severity.
C9_WirePriority ==
  /\ C9_MaskingOnSamples
  /\ lastWrite # NoWrite =>
       LET p == lastWrite.by
           pr == lastWrite.pr
       IN  /\ C9_Low3(pr) = C9_Low3(cv[p].sev)
           /\ C9_High5(pr) = C9_High5(w.priority)
           /\ \A i \in 1..8 :
                cv[p].op = C9_Methods[i] => pr = (w.priority \div 8) * 8 + (i - 1)
           /\ cv[p].op = "Write" => pr = w.priority

\* a client dialed with USER|NOTICE has sent USER|INFO from Info
C9_Witness ==
  /\ lastWrite # NoWrite
  /\ w.priority = 13
  /\ cv[lastWrite.by].op = "Info"
  /\ lastWrite.pr = 14

\* the 20 facility mnemonics with their codes 0..11 and 16..23, and the
\* level mnemonics with their values 0..7 (WARN as an alias of WARNING)
C10_Facilities ==
  << <<"K","E","R","N">>, <<"U","S","E","R">>, <<"M","A","I","L">>,
     <<"D","A","E","M","O","N">>, <<"A","U","T","H">>, <<"S","Y","S","L","O","G">>,
     <<"L","P","R">>, <<"N","E","W","S">>, <<"U","U","C","P">>, <<"C","R","O","N">>,
     <<"A","U","T","H","P","R","I","V">>, <<"F","T","P">>,
     <<"L","O","C","A","L","0">>, <<"L","O","C","A","L","1">>,
     <<"L","O","C","A","L","2">>, <<"L","O","C","A","L","3">>,
     <<"L","O","C","A","L","4">>, <<"L","O","C","A","L","5">>,
     <<"L","O","C","A","L","6">>, <<"L","O","C","A","L","7">> >>
C10_FacilityCode(i) == IF i <= 12 THEN i - 1 ELSE i + 3
C10_Levels ==
  << <<"E","M","E","R","G">>, <<"A","L","E","R","T">>, <<"C","R","I","T">>,
     <<"E","R","R">>, <<"W","A","R","N","I","N","G">>, <<"N","O","T","I","C","E">>,
     <<"I","N","F","O">>, <<"D","E","B","U","G">>, <<"W","A","R","N">> >>
C10_LevelValue(j) == IF j = 9 THEN 4 ELSE j - 1

\* every text f.l and f.l.x in the three letter cases, with the priority
\* expected for it
C10_Expected ==
  UNION {
    {[text |-> f \o <<".">> \o l \o t,
      value |-> C10_FacilityCode(i) * 8 + C10_LevelValue(j)] :
        f \in CaseVariants(C10_Facilities[i]),
        l \in CaseVariants(C10_Levels[j]),
        t \in ThirdSegments} :
    i \in 1..20, j \in 1..9}

\* C10: for every accepted facility mnemonic f and level mnemonic l (WARN
\* included), in any letter case, parsePriority(f.l) succeeds with
\* facilityValue(f) | levelValue(l), facility values being 0..11 and 16..23
\* shifted left by 3 and level values 0..7; a third segment changes nothing.
C10_ParseValid ==
  parsed # NoResult =>
    \A r \in C10_Expected : r.text = text => parsed = Ok(r.value)

\* local3.warn in mixed case and with a third segment was parsed to 156
C10_Witness ==
  /\ text = <<"l","O","c","A","l","3",".","w","A","r","N",".","x">>
  /\ parsed = Ok(156)

\* every input text of PriorityTexts with its facility token, whether that
\* token is one of the 20 mnemonics, and whether a level token is present and
\* one of the level mnemonics
C11_IsFacility(f) == \E i \in 1..20 : f \in CaseVariants(C10_Facilities[i])
C11_IsLevel(l) == \E j \in 1..9 : l \in CaseVariants(C10_Levels[j])
C11_Cases ==
  {[text |-> f \o <<".">> \o l \o t, facOk |-> C11_IsFacility(f),
    hasLevel |-> TRUE, levOk |-> C11_IsLevel(l)] :
     f \in FacilityTokens \cup BadFacilityTokens,
     l \in LevelTokens \cup BadLevelTokens,
     t \in ThirdSegments}
  \cup {[text |-> f, facOk |-> C11_IsFacility(f), hasLevel |-> FALSE,
         levOk |-> FALSE] : f \in DotlessTexts}

\* Dial has not been called and no connection was opened
C11_NoConnection ==
  phase = "new" /\ dialCall = NoDial /\ open = {} /\ nextConn = 1

\* C11: parsePriority returns the invalid-facility error whenever the
\* facility token is not one of the 20 mnemonics, whatever the level token
\* is, and the invalid-level error whenever the facility token is accepted
\* and the level token is present and not a level mnemonic; in both cases
\* the priority returned is 0 and no connection is attempted.
C11_ParseErrors ==
  parsed # NoResult =>
    \A r \in C11_Cases :
      r.text = text =>
        /\ ~r.facOk =>
             /\ parsed = [kind |-> "err", value |-> 0, err |-> "invalid syslog facility"]
             /\ C11_NoConnection
        /\ (r.facOk /\ r.hasLevel /\ ~r.levOk) =>
             /\ parsed = [kind |-> "err", value |-> 0, err |-> "invalid syslog level"]
             /\ C11_NoConnection

\* kernel.fatal, with neither token accepted, gave the invalid-facility error
C11_Witness ==
  /\ text = <<"k","e","r","n","e","l",".","f","a","t","a","l">>
  /\ parsed = [kind |-> "err", value |-> 0, err |-> "invalid syslog facility"]

\* C12: Dial returns the invalid-priority error, with no connect attempt and
\* no client, exactly when priority < 0 or priority > 191; for a priority in
\* 0..191 it makes exactly one connect attempt and returns a client holding
\* that connection if the attempt succeeds, only the connect error if not.
C12_DialValidation ==
  /\ [](phase = "new" <=> dialCall = NoDial)
  /\ [](dialCall # NoDial =>
          /\ (dialCall.err = "invalid priority") <=>
               (dialCall.priority < 0 \/ dialCall.priority > 191)
          /\ dialCall.err = "invalid priority" =>
               /\ dialCall.attempts = 0
               /\ ~dialCall.client
               /\ phase = "invalid"
               /\ open = {} /\ nextConn = 1
          /\ dialCall.err # "invalid priority" =>
               /\ dialCall.attempts = 1
               /\ dialCall.client <=> dialCall.err = "nil"
               /\ dialCall.client <=> phase = "open"
               /\ ~dialCall.client =>
                    (dialCall.err = "dial" /\ phase = "connerr" /\ open = {}))
  /\ [][phase = "new" /\ phase' = "open" =>
          /\ w'.conn # 0
          /\ open' = {w'.conn}
          /\ w'.priority = dialCall'.priority]_vars

\* Dial with the largest priority, 191, returned a client
C12_Witness ==
  /\ dialCall.priority = 191
  /\ dialCall.client
  /\ dialCall.attempts = 1
  /\ w.conn = 1

\* the message ends with a newline
C13_EndsNL(m) == Len(m) >= 1 /\ m[Len(m)] = "\n"

\* C13: the framed output ends with the message followed by exactly one
\* added newline when the message does not end with a newline, and with the
\* message unchanged when it does; a message ending in a single newline
\* never yields output ending in two newlines.
C13_TrailingNewline ==
  lastWrite # NoWrite =>
    LET msg == cv[lastWrite.by].msg
        body == lastWrite.body
    IN  /\ C13_EndsNL(body)
        /\ ~C13_EndsNL(msg) =>
             /\ Len(body) = Len(msg) + 1
             /\ SubSeq(body, 1, Len(msg)) = msg
        /\ C13_EndsNL(msg) => body = msg
        /\ (C13_EndsNL(msg) /\ ~C13_EndsNL(SubSeq(msg, 1, Len(msg) - 1))) =>
             ~C13_EndsNL(SubSeq(body, 1, Len(body) - 1))

\* a message that ends with a newline was framed as it is
C13_Witness ==
  /\ lastWrite # NoWrite
  /\ cv[lastWrite.by].msg = <<"m", "\n">>
  /\ lastWrite.body = <<"m", "\n">>

\* C14: a successful call of writeAndRetry reports the length of the
\* caller's message, without the added newline and the framing, after the
\* first write as after the write that follows a connect; a failed call
\* reports 0 bytes.
C14_BytesOfMessage ==
  \A p \in Callers :
    Returning(p) =>
      /\ cv[p].err = "nil" => cv[p].n = Len(cv[p].msg)
      /\ cv[p].err # "nil" => cv[p].n = 0

\* Write of "disk full" succeeded on the write after a connect and reports 9
C14_Witness ==
  \E p \in Callers :
    /\ Returning(p)
    /\ cv[p].op = "Write"
    /\ cv[p].dials = 1
    /\ cv[p].err = "nil"
    /\ cv[p].msg = <<"d","i","s","k"," ","f","u","l","l">>
    /\ lastWrite.body = <<"d","i","s","k"," ","f","u","l","l","\n">>
    /\ cv[p].n = 9

\* a frame written by Debug("disk full") on a client dialed with LOCAL3|ERR
\* and tag "svc"
C15_Case ==
  /\ lastWrite # NoWrite
  /\ w.priority = 19 * 8 + 3
  /\ w.tag = <<"s","v","c">>
  /\ cv[lastWrite.by].op = "Debug"
  /\ cv[lastWrite.by].msg = <<"d","i","s","k"," ","f","u","l","l">>

\* C15 as stated: the line sent has the PRI field <187>.
C15_Pri187 ==
  C15_Case =>
    /\ lastWrite.pri = <<"<", "1", "8", "7", ">">>
    /\ lastWrite.hostname = w.hostname
    /\ lastWrite.tag = <<"s","v","c">>
    /\ lastWrite.body = <<"d","i","s","k"," ","f","u","l","l","\n">>

\* C15, amended: for a client dialed with facility LOCAL3, default severity
\* ERR and tag "svc", the Debug emission of "disk full" sends a line whose
\* PRI field is <159> (LOCAL3|DEBUG = 19*8 + 7), with the client's hostname,
\* the tag svc and the message followed by one newline.
C15_Pri159 ==
  C15_Case =>
    /\ lastWrite.pri = <<"<", "1", "5", "9", ">">>
    /\ lastWrite.hostname = w.hostname
    /\ lastWrite.tag = <<"s","v","c">>
    /\ lastWrite.body = <<"d","i","s","k"," ","f","u","l","l","\n">>

\* such a frame has been written
C15_Witness ==
  /\ C15_Case
  /\ lastWrite.pr = 159
  /\ lastWrite.hostname = <<"host">>

\* C16: for every input text, texts without "." and the empty text
\* included, parsePriority returns a Priority or an error to its caller; no
\* input makes it fail in another way.
C16_AlwaysReturns ==
  parsed # NoResult => parsed.kind \in {"ok", "err"}

\* C17: connect invoked with the lock held while a connection is held closes
\* that connection exactly once, then opens a new connection and returns
\* the dial result unchanged, also when the close reports an error; it does
\* not wait for the lock its caller holds.
C17_ConnectReplaces ==
  /\ \A p \in Callers :
       (pc[p] = "connect" /\ w.conn # 0) ~> (cv[p].closes = 1 /\ cv[p].dials = 1)
  /\ [](\A p \in Callers : (pc[p] = "cLock" /\ ret[p] = "cDial") => mu # p)
  /\ [](\A p \in Callers :
          (InEmission(p) /\ cv[p].dials = 1 /\ cv[p].firstFailed) =>
             /\ cv[p].closes = 1
             /\ (cv[p].err = "dial") <=> (w.conn = 0))

\* C18: when an emission is called on a client holding a connection and its
\* first write succeeds, the call returns that result after exactly one
\* write, makes no connect and no close, and leaves the connection handle,
\* hostname, tag, configured priority, network and address unchanged.
C18_FirstWriteSucceeds ==
  /\ [](\A p \in Callers :
          cv[p].firstOk =>
             /\ Returning(p)
             /\ cv[p].writes = 1 /\ cv[p].dials = 0 /\ cv[p].closes = 0
             /\ cv[p].err = "nil" /\ cv[p].n = Len(cv[p].msg)
             /\ cv[p].w0.conn # 0
             /\ w = cv[p].w0
             /\ open = {w.conn})
  /\ [][\A p \in Callers :
          cv[p].firstOk =>
             (pc'[p] \in {"wUnlock", "idle"} /\ w' = w /\ open' = open)]_vars

\* a call whose first write succeeded is about to return
C18_Witness ==
  \E p \in Callers :
    /\ Returning(p)
    /\ cv[p].firstOk
    /\ lastWrite.by = p
    /\ lastWrite.conn = w.conn

\* C19: an emission called on a client that holds no connection (after
\* Close, also by a concurrent caller) issues no write before connecting,
\* makes exactly one connect attempt, and if it succeeds issues exactly one
\* write and leaves the client holding the new live connection.
C19_ReopensClosedClient ==
  \A p \in Callers :
    (cv[p].op \in EmitOps /\ cv[p].w0.conn = 0) =>
       /\ cv[p].closes = 0
       /\ pc[p] \in {"wFirst", "connect", "cDial", "wRetry", "wUnlock"}
       /\ pc[p] \in {"wFirst", "connect", "cDial"} =>
            (cv[p].writes = 0 /\ cv[p].dials = 0 /\ w.conn = 0)
       /\ pc[p] = "wRetry" =>
            (cv[p].writes = 0 /\ cv[p].dials = 1 /\ w.conn # 0 /\ open = {w.conn})
       /\ Returning(p) =>
            /\ cv[p].dials = 1
            /\ cv[p].err = "dial" => (cv[p].writes = 0 /\ w.conn = 0 /\ open = {})
            /\ cv[p].err # "dial" =>
                 /\ cv[p].writes = 1
                 /\ w.conn # 0
                 /\ open = {w.conn}
                 /\ lastWrite.by = p
                 /\ lastWrite.conn = w.conn

\* after a Close an emission has connected and written on the new connection
C19_Witness ==
  \E p \in Callers :
    /\ Returning(p)
    /\ cv[p].prev = "Close"
    /\ cv[p].w0.conn = 0
    /\ cv[p].err = "nil"
    /\ cv[p].writes = 1
    /\ w.conn = nextConn - 1
    /\ open = {w.conn}

\* C20: connect sets the hostname to the new connection's local endpoint
\* only when the connect succeeds and the hostname is empty; otherwise the
\* hostname is unchanged, so once it is non-empty it never changes under
\* emissions, reconnects and Close; every message is framed with the
\* hostname current at the time of its write.
C20_Hostname ==
  /\ [][(phase = "open" /\ w.hostname # <<>>) => w'.hostname = w.hostname]_vars
  /\ [][w'.hostname # w.hostname =>
          /\ w.hostname = <<>>
          /\ phase = "new"
          /\ w'.conn # 0 /\ w'.conn \notin open /\ w'.conn \in open'
          /\ w'.hostname = (IF dialCall'.hostname = <<>>
                            THEN <<"laddr", w'.conn>> ELSE dialCall'.hostname)]_vars
  /\ [](dialCall.client =>
          (w.hostname = (IF dialCall.hostname = <<>>
                         THEN <<"laddr", 1>> ELSE dialCall.hostname)))
  /\ [](lastWrite # NoWrite => lastWrite.hostname = w.hostname)
  /\ [][(lastWrite' # lastWrite /\ lastWrite' # NoWrite) =>
          lastWrite'.hostname = w.hostname]_vars

\* a client whose hostname came from the first connection's local endpoint
\* has reconnected and written with that hostname
C20_Witness ==
  /\ w.hostname = <<"laddr", 1>>
  /\ w.conn = 2
  /\ lastWrite # NoWrite
  /\ lastWrite.conn = 2
  /\ lastWrite.hostname = <<"laddr", 1>>

====
